---- MODULE Spec2Model ----
(***************************************************************************)
(* Job Coffin V5 - Simple Deployment Coordinator                           *)
(* (src/simple_deployment_coordinator.py).                                 *)
(*                                                                         *)
(* The script is one sequential process that shells out to PowerShell for  *)
(* every command, writes three files, changes its own working directory    *)
(* once and launches one background server process.  The model keeps the   *)
(* position of the script, the record of every operation it invoked (with  *)
(* the outcome the environment produced and the directory it ran in), the  *)
(* value each step function returned, the way main() ended and the state   *)
(* of the launched server process.                                         *)
(***************************************************************************)
EXTENDS Naturals, Sequences, FiniteSets

VARIABLES pc, idx, all_good, log, cwd, ret, result, banner, server, prompts

vars == <<pc, idx, all_good, log, cwd, ret, result, banner, server, prompts>>

(***************************************************************************)
(* Literals of the source.                                                 *)
(***************************************************************************)
ProjectDir == "C:\\dev\\jobcoffin-v5"

\* The directory the script is started from when that is not the project.
LaunchDir == "launch directory"

requirements == <<"git --version", "node --version", "npm --version", "gh --version">>

structure_commands ==
    << "New-Item -ItemType Directory -Path 'C:\\dev\\jobcoffin-v5' -Force",
       "Set-Location 'C:\\dev\\jobcoffin-v5'",
       "git init",
       "New-Item -ItemType File -Name 'package.json' -Force",
       "New-Item -ItemType Directory -Name 'src' -Force" >>

github_commands ==
    << "gh auth status",
       "gh repo create jobcoffin-v5 --private --source=. --remote=origin --push" >>

WritePackageJson == "open package.json"
WriteIndexJs     == "open src/index.js"
Chdir            == "os.chdir"
NpmInstall       == "npm install"
StartServer      == "Start-Process -NoNewWindow npm -ArgumentList 'start'"
WriteRailwayJson == "open railway.json"
RailwayDeploy    == "railway deploy"

\* Every operation of the script, in program order.
Operations ==
    requirements \o structure_commands
      \o <<WritePackageJson, WriteIndexJs, Chdir, NpmInstall, StartServer>>
      \o github_commands \o <<WriteRailwayJson, RailwayDeploy>>

\* The step functions main() calls, in call order.
MainSteps ==
    << "check_requirements", "create_deployment_structure", "create_package_json",
       "create_basic_server", "install_dependencies", "test_local_server",
       "setup_github_repo", "deploy_to_railway" >>

\* The steps main() guards with "if not ...: return False".
Blocking ==
    { "check_requirements", "create_deployment_structure", "create_package_json",
      "create_basic_server", "install_dependencies" }

NonBlocking == { "test_local_server", "setup_github_repo", "deploy_to_railway" }

(***************************************************************************)
(* What the environment can answer.                                        *)
(***************************************************************************)
\* subprocess.run(["powershell", ...], check=True): the process exits with
\* status 0, exits with a non-zero status, cannot be started because the
\* executable is missing, fails with another exception, or the user
\* presses Ctrl-C while it runs.
ProcessOutcomes == {"exit0", "nonzero", "not_found", "other_error", "interrupt"}

\* open()/json.dump()/os.makedirs()/os.chdir(): done, or an OSError.
FileOutcomes == {"ok", "error"}

(***************************************************************************)
(* run_command: True/False are its first return value, the other two       *)
(* values are the exception that leaves it.                                *)
(***************************************************************************)
run_command_no_not_found(o) ==
    CASE o = "exit0"     -> "True"
      [] o = "nonzero"   -> "False"
      [] o = "interrupt" -> "KeyboardInterrupt"
      [] OTHER           -> "Exception"

run_command(o) ==
    CASE o = "exit0"     -> "True"
      [] o = "nonzero"   -> "False"
      [] o = "not_found" -> "False"
      [] o = "interrupt" -> "KeyboardInterrupt"
      [] OTHER           -> "Exception"

Returned(r) == r \in {"True", "False"}

\* The record of one operation: who ran it, what the environment answered,
\* what the script made of it, and the working directory it ran in.
Call(fn, op, o) ==
    [fn |-> fn, op |-> op, out |-> o, res |-> run_command(o), cwd |-> cwd]

FileOp(fn, op, o, failure) ==
    [fn |-> fn, op |-> op, out |-> o,
     res |-> IF o = "ok" THEN "True" ELSE failure, cwd |-> cwd]

(***************************************************************************)
(* The loops of the step functions: what happens after command i returned  *)
(* success: "continue" with command i+1, or return "True" / "False".       *)
(***************************************************************************)
check_requirements_short_circuit(i, success, good) ==
    IF ~success THEN "False"
    ELSE IF i < Len(requirements) THEN "continue" ELSE "True"

check_requirements_loop(i, success, good) ==
    IF i < Len(requirements) THEN "continue"
    ELSE IF good THEN "True" ELSE "False"

create_deployment_structure_no_stop(i, success) ==
    IF i < Len(structure_commands) THEN "continue"
    ELSE IF success THEN "True" ELSE "False"

create_deployment_structure_loop(i, success) ==
    IF ~success THEN "False"
    ELSE IF i < Len(structure_commands) THEN "continue" ELSE "True"

setup_github_repo_no_stop(i, success) ==
    IF i < Len(github_commands) THEN "continue"
    ELSE IF success THEN "True" ELSE "False"

setup_github_repo_loop(i, success) ==
    IF ~success THEN "False"
    ELSE IF i < Len(github_commands) THEN "continue" ELSE "True"

(***************************************************************************)
(* The script body: where control goes when main() has ended.              *)
(***************************************************************************)
after_main_no_finally(end) ==
    CASE end = "KeyboardInterrupt" -> "except KeyboardInterrupt"
      [] end = "Exception"         -> "exited"
      [] OTHER                     -> "finally"

after_main(end) ==
    CASE end = "KeyboardInterrupt" -> "except KeyboardInterrupt"
      [] end = "Exception"         -> "except Exception"
      [] OTHER                     -> "finally"

StepIndex(fn) == CHOOSE i \in 1..Len(MainSteps) : MainSteps[i] = fn

NextStep(fn) ==
    IF StepIndex(fn) < Len(MainSteps) THEN MainSteps[StepIndex(fn) + 1]
    ELSE "completed"

(***************************************************************************)
(* main: what main() does when step function fn has returned r.            *)
(***************************************************************************)
main_blocking_local_test(fn, r) ==
    IF fn \in (Blocking \cup {"test_local_server"}) /\ r = "False"
    THEN [pc |-> after_main("False"), result |-> "False"]
    ELSE [pc |-> NextStep(fn), result |-> "running"]

main_ignores_package_json(fn, r) ==
    IF fn \in (Blocking \ {"create_package_json"}) /\ r = "False"
    THEN [pc |-> after_main("False"), result |-> "False"]
    ELSE [pc |-> NextStep(fn), result |-> "running"]

main_retry(fn, r) ==
    IF fn \in Blocking /\ r = "False"
    THEN IF fn = "install_dependencies"
         THEN [pc |-> fn, result |-> "running"]
         ELSE [pc |-> after_main("False"), result |-> "False"]
    ELSE [pc |-> NextStep(fn), result |-> "running"]

main(fn, r) ==
    IF fn \in Blocking /\ r = "False"
    THEN [pc |-> after_main("False"), result |-> "False"]
    ELSE [pc |-> NextStep(fn), result |-> "running"]

\* Step function fn returns r to main().
Returns(fn, r) ==
    /\ ret' = [ret EXCEPT ![fn] = r]
    /\ pc' = main(fn, r).pc
    /\ result' = main(fn, r).result
    /\ idx' = 1

\* Exception e leaves step function fn, and main() with it.
Raises(fn, e) ==
    /\ ret' = [ret EXCEPT ![fn] = "raised"]
    /\ pc' = after_main(e)
    /\ result' = e
    /\ idx' = 1

\* The loop of fn goes on with its next command.
Continues ==
    /\ idx' = idx + 1
    /\ UNCHANGED <<pc, ret, result>>

(***************************************************************************)
(* The server process that Start-Process launches.                         *)
(***************************************************************************)
Start_Process_Wait(success, s) == IF success THEN "exited" ELSE s

Start_Process(success, s) == IF success THEN "starting" ELSE s

(***************************************************************************)
(* Initial state: the script has been started, from the project directory  *)
(* or from somewhere else.                                                 *)
(***************************************************************************)
Init ==
    /\ pc = "check_requirements"
    /\ idx = 1
    /\ all_good = TRUE
    /\ log = << >>
    /\ cwd \in {LaunchDir, ProjectDir}
    /\ ret = [f \in {MainSteps[i] : i \in 1..Len(MainSteps)} |-> "none"]
    /\ result = "running"
    /\ banner = FALSE
    /\ server = "none"
    /\ prompts = 0

(***************************************************************************)
(* Phase 1.  One iteration of the loop of check_requirements.              *)
(***************************************************************************)
check_requirements ==
    /\ pc = "check_requirements"
    /\ \E o \in ProcessOutcomes :
         LET c    == Call("check_requirements", requirements[idx], o)
             good == all_good /\ c.res = "True"
             nxt  == check_requirements_loop(idx, c.res = "True", good)
         IN /\ log' = Append(log, c)
            /\ IF Returned(c.res)
               THEN /\ all_good' = good
                    /\ IF nxt = "continue" THEN Continues
                       ELSE Returns("check_requirements", nxt)
               ELSE /\ all_good' = all_good
                    /\ Raises("check_requirements", c.res)
    /\ UNCHANGED <<cwd, banner, server, prompts>>

(***************************************************************************)
(* Phase 2.  One iteration of the loop of create_deployment_structure.     *)
(***************************************************************************)
create_deployment_structure ==
    /\ pc = "create_deployment_structure"
    /\ \E o \in ProcessOutcomes :
         LET c   == Call("create_deployment_structure", structure_commands[idx], o)
             nxt == create_deployment_structure_loop(idx, c.res = "True")
         IN /\ log' = Append(log, c)
            /\ IF Returned(c.res)
               THEN IF nxt = "continue" THEN Continues
                    ELSE Returns("create_deployment_structure", nxt)
               ELSE Raises("create_deployment_structure", c.res)
    /\ UNCHANGED <<all_good, cwd, banner, server, prompts>>

create_package_json ==
    /\ pc = "create_package_json"
    /\ \E o \in FileOutcomes :
         LET c == FileOp("create_package_json", WritePackageJson, o, "False")
         IN /\ log' = Append(log, c)
            /\ Returns("create_package_json", c.res)
    /\ UNCHANGED <<all_good, cwd, banner, server, prompts>>

create_basic_server ==
    /\ pc = "create_basic_server"
    /\ \E o \in FileOutcomes :
         LET c == FileOp("create_basic_server", WriteIndexJs, o, "False")
         IN /\ log' = Append(log, c)
            /\ Returns("create_basic_server", c.res)
    /\ UNCHANGED <<all_good, cwd, banner, server, prompts>>

(***************************************************************************)
(* Phase 3.  os.chdir is outside any try: its failure leaves main().       *)
(***************************************************************************)
install_dependencies ==
    /\ pc = "install_dependencies"
    /\ \E d \in FileOutcomes :
         LET cd == FileOp("install_dependencies", Chdir, d, "Exception")
         IN IF d = "ok"
            THEN /\ cwd' = ProjectDir
                 /\ \E o \in ProcessOutcomes :
                      LET c == [Call("install_dependencies", NpmInstall, o)
                                  EXCEPT !.cwd = ProjectDir]
                      IN /\ log' = log \o <<cd, c>>
                         /\ IF Returned(c.res)
                            THEN Returns("install_dependencies", c.res)
                            ELSE Raises("install_dependencies", c.res)
            ELSE /\ cwd' = cwd
                 /\ log' = Append(log, cd)
                 /\ Raises("install_dependencies", cd.res)
    /\ UNCHANGED <<all_good, banner, server, prompts>>

(***************************************************************************)
(* Phase 4.  The launching command returns; the server is on its own.      *)
(***************************************************************************)
test_local_server ==
    /\ pc = "test_local_server"
    /\ \E o \in ProcessOutcomes :
         LET c == Call("test_local_server", StartServer, o)
         IN /\ log' = Append(log, c)
            /\ server' = Start_Process(o = "exit0", server)
            /\ IF Returned(c.res)
               THEN Returns("test_local_server", c.res)
               ELSE Raises("test_local_server", c.res)
    /\ UNCHANGED <<all_good, cwd, banner, prompts>>

(***************************************************************************)
(* Phase 5.  One iteration of the loop of setup_github_repo.               *)
(***************************************************************************)
setup_github_repo ==
    /\ pc = "setup_github_repo"
    /\ \E o \in ProcessOutcomes :
         LET c   == Call("setup_github_repo", github_commands[idx], o)
             nxt == setup_github_repo_loop(idx, c.res = "True")
         IN /\ log' = Append(log, c)
            /\ IF Returned(c.res)
               THEN IF nxt = "continue" THEN Continues
                    ELSE Returns("setup_github_repo", nxt)
               ELSE Raises("setup_github_repo", c.res)
    /\ UNCHANGED <<all_good, cwd, banner, server, prompts>>

(***************************************************************************)
(* Phase 6.  railway.json, then 'railway deploy'.                          *)
(***************************************************************************)
deploy_to_railway ==
    /\ pc = "deploy_to_railway"
    /\ \E w \in FileOutcomes :
         LET cw == FileOp("deploy_to_railway", WriteRailwayJson, w, "False")
         IN IF w = "ok"
            THEN \E o \in ProcessOutcomes :
                   LET c == Call("deploy_to_railway", RailwayDeploy, o)
                   IN /\ log' = log \o <<cw, c>>
                      /\ IF Returned(c.res)
                         THEN Returns("deploy_to_railway", c.res)
                         ELSE Raises("deploy_to_railway", c.res)
            ELSE /\ log' = Append(log, cw)
                 /\ Returns("deploy_to_railway", "False")
    /\ UNCHANGED <<all_good, cwd, banner, server, prompts>>

\* The 'DEPLOYMENT PROCESS COMPLETED' banner and "return True".
completed ==
    /\ pc = "completed"
    /\ banner' = TRUE
    /\ result' = "True"
    /\ pc' = after_main("True")
    /\ UNCHANGED <<idx, all_good, log, cwd, ret, server, prompts>>

(***************************************************************************)
(* The script body: the two handlers and the finally clause.               *)
(***************************************************************************)
except_KeyboardInterrupt ==
    /\ pc = "except KeyboardInterrupt"
    /\ pc' = "finally"
    /\ UNCHANGED <<idx, all_good, log, cwd, ret, result, banner, server, prompts>>

except_Exception ==
    /\ pc = "except Exception"
    /\ pc' = "finally"
    /\ UNCHANGED <<idx, all_good, log, cwd, ret, result, banner, server, prompts>>

\* input("Press Enter to exit..."): the prompt is shown.
finally ==
    /\ pc = "finally"
    /\ prompts' = prompts + 1
    /\ pc' = "input"
    /\ UNCHANGED <<idx, all_good, log, cwd, ret, result, banner, server>>

\* The user presses Enter (or Ctrl-C): the script is over.
exit ==
    /\ pc = "input"
    /\ pc' = "exited"
    /\ UNCHANGED <<idx, all_good, log, cwd, ret, result, banner, server, prompts>>

(***************************************************************************)
(* The launched server lives its own life: it comes up, or dies.           *)
(***************************************************************************)
server_up ==
    /\ server = "starting"
    /\ server' = "running"
    /\ UNCHANGED <<pc, idx, all_good, log, cwd, ret, result, banner, prompts>>

server_exit ==
    /\ server \in {"starting", "running"}
    /\ server' = "exited"
    /\ UNCHANGED <<pc, idx, all_good, log, cwd, ret, result, banner, prompts>>

Script ==
    \/ check_requirements
    \/ create_deployment_structure
    \/ create_package_json
    \/ create_basic_server
    \/ install_dependencies
    \/ test_local_server
    \/ setup_github_repo
    \/ deploy_to_railway
    \/ completed
    \/ except_KeyboardInterrupt
    \/ except_Exception
    \/ finally

Next ==
    \/ check_requirements
    \/ create_deployment_structure
    \/ create_package_json
    \/ create_basic_server
    \/ install_dependencies
    \/ test_local_server
    \/ setup_github_repo
    \/ deploy_to_railway
    \/ completed
    \/ except_KeyboardInterrupt
    \/ except_Exception
    \/ finally
    \/ exit
    \/ server_up
    \/ server_exit

Spec == Init /\ [][Next]_vars

\* Every external command returns and the interpreter goes on: the script
\* takes its next step whenever it has one.  Nothing is assumed of the
\* server process, nor of the user at the prompt.
FairSpec == Init /\ [][Next]_vars /\ WF_vars(Script)

(***************************************************************************)
(* Reading the record of a run.                                            *)
(***************************************************************************)
Entries == 1..Len(log)

Has(op) == \E i \in Entries : log[i].op = op

Count(op) == Cardinality({i \in Entries : log[i].op = op})

OpIndex(op) == CHOOSE i \in 1..Len(Operations) : Operations[i] = op

OpSet(seq) == {seq[i] : i \in 1..Len(seq)}

\* The entries step function f made, in the order it made them.
EntriesOf(f) == SelectSeq(log, LAMBDA e : e.fn = f)

MainEnded ==
    pc \in {"except KeyboardInterrupt", "except Exception", "finally", "input", "exited"}

AllFiveSucceeded == \A f \in Blocking : ret[f] = "True"

(***************************************************************************)
(* C1 (as amended).  main() ends in exactly one of three ways.  It reaches *)
(* the banner and returns True iff the five blocking step functions all    *)
(* returned True and no exception left a step of phases 4-6; it returns    *)
(* False iff one of the five returned False; it ends with an exception iff *)
(* an exception left one of its steps.  Whether a step of phases 4-6       *)
(* returned True or False never changes the result.                        *)
(***************************************************************************)
C1_MainResult ==
    /\ ~MainEnded => (result = "running" /\ ~banner)
    /\ MainEnded =>
         /\ result \in {"True", "False", "KeyboardInterrupt", "Exception"}
         /\ (result = "True") <=>
              (AllFiveSucceeded /\ \A f \in NonBlocking : Returned(ret[f]))
         /\ (result = "False") <=> (\E f \in Blocking : ret[f] = "False")
         /\ (result \in {"KeyboardInterrupt", "Exception"}) <=>
              (\E f \in DOMAIN ret : ret[f] = "raised")
         /\ banner <=> (result = "True")

\* All five succeeded, phases 4-6 all reported failure, main() completed.
C1_Witness ==
    /\ MainEnded
    /\ AllFiveSucceeded
    /\ \A f \in NonBlocking : ret[f] = "False"
    /\ result = "True"
    /\ banner

\* C1 as stated: completion depends on the five blocking steps only.
C1_Original ==
    MainEnded =>
      /\ (result = "True" /\ banner) <=> AllFiveSucceeded
      /\ (\E f \in Blocking : ret[f] = "False") => result = "False"

(***************************************************************************)
(* C2.  Execution is sequential and gated: operations are invoked in       *)
(* program order, an operation of a step is invoked only when every        *)
(* earlier step has returned (True, for the blocking ones), and after a    *)
(* failed requirements check, project-structure command, package.json      *)
(* write or index.js write none of 'npm install', the server launch,       *)
(* 'gh ...' and 'railway deploy' is invoked.                               *)
(***************************************************************************)
EarlyOps ==
    OpSet(requirements) \cup OpSet(structure_commands)
      \cup {WritePackageJson, WriteIndexJs}

LateCommands ==
    {NpmInstall, StartServer, RailwayDeploy} \cup OpSet(github_commands)

C2_SequentialGated ==
    /\ \A i, j \in Entries :
         i < j => OpIndex(log[i].op) < OpIndex(log[j].op)
    /\ \A i \in Entries : \A k \in 1..Len(MainSteps) :
         k < StepIndex(log[i].fn) =>
           IF MainSteps[k] \in Blocking
           THEN ret[MainSteps[k]] = "True"
           ELSE Returned(ret[MainSteps[k]])
    /\ (\E i \in Entries : log[i].op \in EarlyOps /\ log[i].res # "True")
         => \A j \in Entries : log[j].op \notin LateCommands

\* The package.json write failed and the run is over.
C2_Witness ==
    /\ pc = "exited"
    /\ \E i \in Entries : log[i].op = WritePackageJson /\ log[i].res = "False"
    /\ ~Has(NpmInstall)

(***************************************************************************)
(* C3 (as amended).  run_command reports failure iff the process exited    *)
(* with a non-zero status or PowerShell could not be started; a step       *)
(* function that returns reports failure iff a command it ran was reported *)
(* failed or a file write it made raised an exception.                     *)
(***************************************************************************)
IsCommand(op) == op \notin {WritePackageJson, WriteIndexJs, Chdir, WriteRailwayJson}

C3_FailureCauses ==
    /\ \A i \in Entries :
         /\ IsCommand(log[i].op) =>
              ((log[i].res = "False") <=> (log[i].out \in {"nonzero", "not_found"}))
         /\ ~IsCommand(log[i].op) =>
              ((log[i].res = "False") <=> (log[i].out = "error" /\ log[i].op # Chdir))
    /\ \A f \in DOMAIN ret :
         Returned(ret[f]) =>
           ((ret[f] = "False") <=>
              \E i \in Entries :
                /\ log[i].fn = f
                /\ log[i].out \in {"nonzero", "not_found", "error"})

\* A step reported failure although no process exited with a non-zero status.
C3_Witness ==
    /\ ret["check_requirements"] = "False"
    /\ \E i \in Entries : log[i].out = "not_found" /\ log[i].res = "False"
    /\ \A i \in Entries : log[i].out # "nonzero"

\* C3 as stated: a non-zero exit status is the only cause of failure.
C3_Original ==
    /\ \A i \in Entries : (log[i].res = "False") <=> (log[i].out = "nonzero")
    /\ \A f \in DOMAIN ret :
         Returned(ret[f]) =>
           ((ret[f] = "False") <=>
              \E i \in Entries : log[i].fn = f /\ log[i].out = "nonzero")

(***************************************************************************)
(* C4.  No retry: every command is invoked at most once in a run and every *)
(* file is written at most once, whatever the outcomes.                    *)
(***************************************************************************)
C4_AtMostOnce ==
    /\ \A op \in OpSet(Operations) : Count(op) <= 1
    /\ \A i \in Entries : log[i].op \in OpSet(Operations)

\* A complete run in which a command failed.
C4_Witness ==
    /\ pc = "exited"
    /\ \A op \in OpSet(Operations) : Count(op) = 1
    /\ \E i \in Entries : log[i].res = "False"

(***************************************************************************)
(* C5.  The server is launched at most once; the launch leaves it just     *)
(* starting and main() goes on to phase 5; no step of the script waits     *)
(* for, reads or stops the server: the script can always take its next     *)
(* step, and the server's state changes only at the launch and by the      *)
(* server's own doing, which leaves the script untouched.                  *)
(***************************************************************************)
Launched == \E i \in Entries : log[i].op = StartServer /\ log[i].out = "exit0"

C5_State ==
    /\ Count(StartServer) <= 1
    /\ (server # "none") <=> Launched
    /\ pc \notin {"input", "exited"} => ENABLED Script

C5_Step ==
    /\ (pc = "test_local_server" /\ pc' # pc /\ Launched')
         => (server' = "starting" /\ pc' = "setup_github_repo")
    /\ (server' # server) =>
         \/ (server = "none" /\ pc = "test_local_server" /\ pc' = "setup_github_repo")
         \/ (server # "none" /\ UNCHANGED <<pc, idx, log, cwd, ret, result, banner, prompts>>)

C6_NoShortCircuit ==
    LET es == EntriesOf("check_requirements") IN
    /\ Len(es) <= Len(requirements)
    /\ \A k \in 1..Len(es) : es[k].op = requirements[k]
    /\ (pc = "check_requirements" /\ Len(es) > 0 /\ es[Len(es)].res = "False")
         => (idx = Len(es) + 1 /\ idx <= Len(requirements))
    /\ Returned(ret["check_requirements"]) =>
         /\ Len(es) = Len(requirements)
         /\ (ret["check_requirements"] = "True") <=>
              (\A k \in 1..Len(es) : es[k].res = "True")

\* The first check failed, the three others ran and succeeded.
C6_Witness ==
    /\ ret["check_requirements"] = "False"
    /\ Len(log) >= 4
    /\ log[1].res = "False"
    /\ \A k \in 2..4 : log[k].op = requirements[k] /\ log[k].res = "True"

(***************************************************************************)
(* C7.  create_deployment_structure runs its five commands in list order   *)
(* and stops at the first failure; it returns True iff all five succeeded. *)
(***************************************************************************)
C7_StopAtFirstFailure ==
    LET es == EntriesOf("create_deployment_structure") IN
    /\ Len(es) <= Len(structure_commands)
    /\ \A k \in 1..Len(es) :
         /\ es[k].op = structure_commands[k]
         /\ \A m \in 1..(k - 1) : es[m].res = "True"
    /\ (ret["create_deployment_structure"] = "True") <=>
         /\ Len(es) = Len(structure_commands)
         /\ \A k \in 1..Len(es) : es[k].res = "True"
    /\ (ret["create_deployment_structure"] = "False") <=>
         (Len(es) > 0 /\ es[Len(es)].res = "False")

\* 'git init' failed: the two commands after it were not invoked.
C7_Witness ==
    /\ ret["create_deployment_structure"] = "False"
    /\ Has(structure_commands[3])
    /\ ~Has(structure_commands[4])
    /\ ~Has(structure_commands[5])

(***************************************************************************)
(* C8.  'gh repo create' is invoked only after 'gh auth status' succeeded; *)
(* when either fails setup_github_repo returns False and main() goes on to *)
(* deploy_to_railway, where 'railway deploy' is invoked iff railway.json   *)
(* was written, whatever phases 4 and 5 returned.                          *)
(***************************************************************************)
C8_GithubThenRailway ==
    /\ Has(github_commands[2]) =>
         \E i \in Entries : log[i].op = github_commands[1] /\ log[i].res = "True"
    /\ (\E i \in Entries : log[i].fn = "setup_github_repo" /\ log[i].res = "False")
         => /\ ret["setup_github_repo"] = "False"
            /\ (pc = "deploy_to_railway" \/ Has(WriteRailwayJson))
    /\ ret["setup_github_repo"] = "False" =>
         (\E i \in Entries : log[i].fn = "setup_github_repo" /\ log[i].res = "False")
    /\ Has(RailwayDeploy) <=>
         (\E i \in Entries : log[i].op = WriteRailwayJson /\ log[i].out = "ok")
    /\ (Returned(ret["setup_github_repo"]) /\ pc # "deploy_to_railway")
         => Has(WriteRailwayJson)

\* The server launch and 'gh auth status' failed, 'railway deploy' ran.
C8_Witness ==
    /\ ret["test_local_server"] = "False"
    /\ ret["setup_github_repo"] = "False"
    /\ ~Has(github_commands[2])
    /\ Has(RailwayDeploy)

(***************************************************************************)
(* C9.  Every run reaches the 'Press Enter to exit...' prompt, and reaches *)
(* it once, however main() ended.                                          *)
(***************************************************************************)
C9_PromptExactlyOnce ==
    /\ <>(prompts = 1)
    /\ [](prompts <= 1)
    /\ [](pc \in {"input", "exited"} => prompts = 1)

\* os.chdir failed in install_dependencies and the prompt was shown.
C9_Witness ==
    /\ prompts = 1
    /\ result = "Exception"
    /\ \E i \in Entries : log[i].op = Chdir /\ log[i].out = "error"

(***************************************************************************)
(* C10.  'git init' and 'gh repo create ... --source=.' both run in the    *)
(* project directory.                                                      *)
(***************************************************************************)
C10_SameDirectory ==
    \A i \in Entries :
      log[i].op \in {structure_commands[3], github_commands[2]}
        => log[i].cwd = ProjectDir

====
